---- MODULE Spec2Model ----
(***************************************************************************)
(* Live stats poller of the hosting panel frontend.                        *)
(*                                                                         *)
(* Two React components poll a REST endpoint on a timer:                   *)
(*   Dashboard  (frontend/src/components/Dashboard.tsx)   every 30000 ms   *)
(*   SystemPage (frontend/src/app/system/page.tsx)        every  5000 ms   *)
(* Both have the same shape: three state hooks (snapshot, loading, error), *)
(* one effect that fetches once and arms setInterval, an async fetch       *)
(* function with a try/catch, and a render that picks one of four views.   *)
(*                                                                         *)
(* An optional value (T | null) is a sequence of length at most one:       *)
(* <<>> is null and <<v>> is the value v.                                  *)
(***************************************************************************)
EXTENDS Integers, Sequences, FiniteSets, TLC

VARIABLES
    kind,        \* which component this instance is: "dashboard" or "system"
    phase,       \* "rendered" (first render done, effect not yet run), "mounted", "unmounted"
    stats,       \* useState<DashboardStats | null> / useState<SystemStatus | null>
    loading,     \* useState(true)
    error,       \* useState<string | null>(null)
    timers,      \* the browser's table of armed intervals: records [id, period, next]
    interval,    \* the handle the effect closure keeps for its cleanup
    inflight,    \* ids of the fetches whose promise is still pending
    issued,      \* number of fetches issued so far; a fetch's id is its issuance rank
    ticks,       \* number of interval callbacks that have run
    now,         \* wall clock in ms, advanced by the interval firing
    okIds,       \* history: ids of the fetches that resolved successfully
    statsFrom,   \* history: id of the fetch whose payload the snapshot state holds (0: none)
    lastPayload, \* history: payload of the most recently resolved successful fetch
    failures,    \* history: number of fetches that ended in the catch block
    lateSetterCalls, \* history: state-setter calls made after the component unmounted
    updates,     \* history: ids of the fetches whose payload setStats was called with, in call order
    dbPage,      \* DatabasesPage: its state hooks and its pending fetches
    filesPage,   \* FilesPage: its state hooks and its pending fetches
    dockerPage,  \* DockerPage: its state hooks, its pending fetches and container actions
    settingsPage, \* SettingsPage: its state hooks, its pending fetches and saves
    script       \* one run of a Docker start script: position, errorlevel, commands run

\* The state of the one-shot views and of the start script, which the
\* poller never touches.
pageVars == <<dbPage, filesPage, dockerPage, settingsPage, script>>

\* The state of the poller, which the list views never touch.
pollerVars == <<kind, phase, stats, loading, error, timers, interval, inflight,
                issued, ticks, now, okIds, statsFrom, lastPayload, failures,
                lateSetterCalls, updates>>

vars == <<kind, phase, stats, loading, error, timers, interval, inflight,
          issued, ticks, now, okIds, statsFrom, lastPayload, failures,
          lateSetterCalls, updates, dbPage, filesPage, dockerPage,
          settingsPage, script>>

----------------------------------------------------------------------------
(* Bounds of the exploration *)

MaxFetches == 4
MaxTicks == 3
MaxDbFetches == 3
MaxFileFetches == 4
MaxDockerFetches == 3
MaxDockerActions == 2
MaxSettingsFetches == 3
MaxSaves == 2
MaxEdits == 2

(* Program constants *)

DashboardIntervalMs == 30000
SystemIntervalMs == 5000

Kinds == {"dashboard", "system"}

\* The snapshot is abstracted to its three gauges (in hundredths of a
\* percent: 2340 is 23.40), one counter and the activity sequence; an
\* activity event to its id and its timestamp.
SnapA == [cpu |-> 2340, memory |-> 6700, disk |-> 4500, sites |-> 1,
          activity |-> <<>>]

SnapB == [cpu |-> 6746, memory |-> 10000, disk |-> 0, sites |-> 2,
          activity |-> <<[id |-> "a2", ts |-> 200], [id |-> "a1", ts |-> 100]>>]

\* Snapshots that satisfy the data model.
Payloads == {SnapA, SnapB}

\* Bodies that parse as JSON but are not a snapshot of the data model: a
\* gauge above 100, activity oldest-first, a repeated activity id, and an
\* object of another shape.
BadGauge == [SnapB EXCEPT !.cpu = 25000]

BadOrder == [SnapB EXCEPT !.activity =
                <<[id |-> "a1", ts |-> 100], [id |-> "a2", ts |-> 200]>>]

BadIds == [SnapB EXCEPT !.activity =
                <<[id |-> "a2", ts |-> 200], [id |-> "a2", ts |-> 100]>>]

WrongShape == [detail |-> "Not Found"]

\* Every body response.json() can hand to the try branch: the code does not
\* inspect it.
Bodies == Payloads \cup {BadGauge, BadOrder, BadIds, WrongShape}

SnapshotFields == {"cpu", "memory", "disk", "sites", "activity"}

HasSnapshotShape(b) == DOMAIN b = SnapshotFields

\* The ways a fetch ends in the catch block.
FailKinds == {"network", "non2xx", "badjson"}

Period(k) == IF k = "dashboard" THEN DashboardIntervalMs ELSE SystemIntervalMs

\* The message the catch block stores: err.message of the thrown Error.  Only
\* the non-2xx message of the system view is a literal of the source; the
\* others are the runtime's, named here after the failure they report.
ErrorMessage(k, fk) ==
    IF fk = "non2xx"
    THEN (IF k = "system" THEN "Failed to fetch system status" ELSE "Request failed")
    ELSE IF fk = "network" THEN "Failed to fetch"
    ELSE "Unexpected token in JSON"

----------------------------------------------------------------------------
(* Render: which of the four returns of the component is taken *)

Truthy(opt) == opt # <<>> /\ opt # <<"">>

View ==
    IF loading THEN "loading"
    ELSE IF Truthy(error) THEN "error"
    ELSE IF stats = <<>> THEN "empty"
    ELSE "data"

\* The snapshot the user sees: only the last return renders stats.
Displayed == IF View = "data" THEN stats ELSE <<>>

\* An error view that shows Retry only while there is no snapshot yet.
RetryOfferedFirstLoadOnly == View = "error" /\ stats = <<>>

\* The error view is the only one with a Retry button.
RetryOffered == View = "error"

\* {v.toFixed(1)}%: v is in hundredths; the text is v rounded to tenths,
\* written as integer part, one fraction digit and the percent sign.
GaugeText(v) ==
    LET t == (v + 5) \div 10
    IN [int |-> t \div 10, frac |-> t % 10, suffix |-> "%"]

\* style={{ width: `${v}%` }}: the value itself, not clamped.
GaugeWidth(v) == [value |-> v, unit |-> "%"]

\* An activity panel that maps the entries and has no empty-state branch.
ActivityPanelListOnly(activity) ==
    [emptyMessage |-> FALSE,
     rows |-> [i \in 1..Len(activity) |-> [key |-> activity[i].id]]]

\* recent_activity.length === 0 ? <empty message> : recent_activity.map(row)
ActivityPanel(activity) ==
    IF Len(activity) = 0
    THEN [emptyMessage |-> TRUE, rows |-> <<>>]
    ELSE [emptyMessage |-> FALSE,
          rows |-> [i \in 1..Len(activity) |-> [key |-> activity[i].id]]]

----------------------------------------------------------------------------
(* Request headers *)

\* The headers the api client of the Dashboard attaches: the bearer token.
ApiClientHeaders == {"Authorization"}

\* fetch('/api/v1/system/status'): no init argument, so no header at all.
SystemFetchHeaders == {}

\* fetch('/api/v1/settings', {method: 'PUT', headers: {'Content-Type': ...}})
SettingsSaveHeaders == {"Content-Type"}

\* fetch(`/api/v1/docker/containers/${id}/${action}`, {method: 'POST'})
DockerActionHeaders == {}

\* The headers of the poll request of a component.
RequestHeaders(k) ==
    IF k = "dashboard" THEN ApiClientHeaders ELSE SystemFetchHeaders

----------------------------------------------------------------------------
(* The list views right after their first render *)

\* DatabasesPage: useState([]), useState(true), useState(null); no fetch yet.
\* pending holds the ids of the fetches in flight; calls and oks are history:
\* the number of fetchDatabases calls and of those that reached setDatabases.
DbInit == [phase |-> "rendered", databases |-> <<>>, loading |-> TRUE,
           error |-> <<>>, pending |-> {}, calls |-> 0, oks |-> 0]

\* The three returns of DatabasesPage.
DbView(pg) ==
    IF pg.loading THEN "loading"
    ELSE IF Truthy(pg.error) THEN "error"
    ELSE "list"

\* What the databases endpoint may answer with 200: a body without a
\* databases field (<<>>) or with one (<<list>>).
DbBodies == {<<>>, << <<"db1">> >>, << <<"db1", "db2">> >>}

\* The message the catch block of a list view stores.
ListErrorMessage(what, fk) ==
    IF fk = "non2xx" THEN "Failed to fetch " \o what
    ELSE IF fk = "network" THEN "Failed to fetch"
    ELSE "Unexpected token in JSON"

\* fetchDatabases up to its await: setLoading(true), one more request.
FetchDatabasesCall(pg) ==
    [pg EXCEPT !.loading = TRUE,
               !.calls = @ + 1,
               !.pending = @ \cup {pg.calls + 1}]

\* Paths are held as the array '/'-splitting gives: '/' is <<"", "">>, '/a'
\* is <<"", "a">>, '/a/b' is <<"", "a", "b">>.
Root == <<"", "">>

\* The directory tree the files endpoint serves.  The path of an item is
\* whatever the server put in it: '/a/b' for one directory, '/a/c/' (with
\* the trailing slash) for another.
Listing(p) ==
    IF p = Root
    THEN <<[id |-> "d-a", type |-> "directory", path |-> <<"", "a">>],
           [id |-> "f-1", type |-> "file", path |-> <<"", "notes">>]>>
    ELSE IF p = <<"", "a">>
    THEN <<[id |-> "d-b", type |-> "directory", path |-> <<"", "a", "b">>],
           [id |-> "d-c", type |-> "directory", path |-> <<"", "a", "c", "">>]>>
    ELSE <<>>

\* FilesPage: useState([]), useState(true), useState(null), useState('/'),
\* useState([]).  files.of is history: the path the held list was requested
\* for (<<>> for the initial empty list).  pending holds [id, path].
FilesInit == [phase |-> "rendered", files |-> [of |-> <<>>, items |-> <<>>],
              loading |-> TRUE, error |-> <<>>, currentPath |-> Root,
              selectedFiles |-> <<>>, pending |-> {}, calls |-> 0, oks |-> 0]

\* A FilesPage that keeps the list on screen while a fetch is pending.
FilesViewNoSpinner(pg) ==
    IF Truthy(pg.error) THEN "error" ELSE "list"

\* The three returns of FilesPage.
FilesView(pg) ==
    IF pg.loading THEN "loading"
    ELSE IF Truthy(pg.error) THEN "error"
    ELSE "list"

\* fetchFiles up to its await: setLoading(true), one more request for the
\* currentPath of the render that called it.
FetchFilesCall(pg) ==
    [pg EXCEPT !.loading = TRUE,
               !.calls = @ + 1,
               !.pending = @ \cup {[id |-> pg.calls + 1, path |-> pg.currentPath]}]

\* setCurrentPath(p) and the effect on [currentPath]: an unchanged path
\* re-renders nothing; a new one runs the effect, which calls fetchFiles.
SetCurrentPath(pg, p) ==
    IF p = pg.currentPath THEN pg
    ELSE FetchFilesCall([pg EXCEPT !.currentPath = p])

\* currentPath.split('/').slice(0, -1).join('/') || '/'
BackPath(p) ==
    LET q == SubSeq(p, 1, Len(p) - 1)
    IN IF q = <<>> \/ q = <<"">> THEN Root ELSE q

\* currentPath.split('/').filter(Boolean)
Segments(p) == SelectSeq(p, LAMBDA x : x # "")

\* '/' + segments.slice(0, index + 1).join('/')
CrumbPath(p, i) == <<"">> \o SubSeq(Segments(p), 1, i)

\* prev.includes(fileId) ? prev.filter(id => id !== fileId) : [...prev, fileId]
HandleFileSelect(prev, fileId) ==
    IF \E k \in 1..Len(prev) : prev[k] = fileId
    THEN SelectSeq(prev, LAMBDA id : id # fileId)
    ELSE Append(prev, fileId)

\* files.map(f => f.id)
FileIds(items) == [k \in 1..Len(items) |-> items[k].id]

\* handleSelectAll: the lengths decide, not the ids.
HandleSelectAll(prev, items) ==
    IF Len(prev) = Len(items) THEN <<>> ELSE FileIds(items)

\* The label of the select-all button.
SelectAllLabel(pg) ==
    IF Len(pg.selectedFiles) = Len(pg.files.items)
    THEN "Deselect All" ELSE "Select All"

\* checked of the header checkbox.
HeaderChecked(pg) ==
    Len(pg.selectedFiles) = Len(pg.files.items) /\ Len(pg.files.items) > 0

\* checked of the checkbox of a row: selectedFiles.includes(file.id)
RowChecked(pg, i) ==
    \E k \in 1..Len(pg.selectedFiles) : pg.selectedFiles[k] = pg.files.items[i].id

\* DockerPage: useState([]), useState([]), useState(true), useState(null),
\* useState('containers').  fetches holds the fetchDockerData calls in
\* flight with the request each is awaiting; actions holds the pending
\* container actions.  calls, posts, done and lastAction are history: the
\* fetchDockerData calls, the action requests sent, the action responses
\* handled and the outcome of the last of them.
DockerInit == [phase |-> "rendered", containers |-> <<>>, images |-> <<>>,
               loading |-> TRUE, error |-> <<>>, activeTab |-> "containers",
               fetches |-> {}, actions |-> {}, calls |-> 0, posts |-> 0,
               done |-> 0, lastAction |-> "none"]

\* The three returns of DockerPage.
DockerView(pg) ==
    IF pg.loading THEN "loading"
    ELSE IF Truthy(pg.error) THEN "error"
    ELSE "list"

\* Bodies of the containers and images endpoints: without the list field
\* (<<>>) or with it (<<list>>).
ContainerBodies ==
    {<<>>, << <<[id |-> "c1", status |-> "running"]>> >>,
           << <<[id |-> "c1", status |-> "stopped"]>> >>}

ImageBodies == {<<>>, << <<"img1">> >>}

\* The action buttons of a container row: Start when stopped, Stop when
\* running, Restart always.
RowActions(c) ==
    {"restart"} \cup (IF c.status = "stopped" THEN {"start"} ELSE {})
                \cup (IF c.status = "running" THEN {"stop"} ELSE {})

\* fetchDockerData up to its first await: setLoading(true), then the
\* containers request.
FetchDockerDataCall(pg) ==
    [pg EXCEPT !.loading = TRUE,
               !.calls = @ + 1,
               !.fetches = @ \cup {[id |-> pg.calls + 1, step |-> "containers"]}]

\* The settings document the server holds, cut down to two sections of two
\* text fields each.
SettingsDocs ==
    {[general |-> [site_name |-> "Panel", timezone |-> "UTC"],
      email |-> [smtp_host |-> "mail", from_name |-> "Admin"]],
     [general |-> [site_name |-> "Host", timezone |-> "UTC"],
      email |-> [smtp_host |-> "mail", from_name |-> "Admin"]]}

\* The onChange handlers of the form: which field of which section each
\* input edits.
SettingsInputs ==
    {<<"general", "site_name">>, <<"general", "timezone">>,
     <<"email", "smtp_host">>, <<"email", "from_name">>}

\* What the user may leave in an input.
InputValues == {"", "x"}

\* SettingsPage: useState(null), useState(true), useState(false),
\* useState(null), useState(null).  fetches holds the ids of the GETs in
\* flight, saves the PUTs in flight with their body.  calls, puts, edits and
\* lastEdit are history: the fetchSettings calls, the PUTs sent, the
\* handleInputChange calls and the arguments of the last of them.
SettingsInit == [phase |-> "rendered", settings |-> <<>>, loading |-> TRUE,
                 saving |-> FALSE, error |-> <<>>, success |-> <<>>,
                 fetches |-> {}, saves |-> {}, calls |-> 0, puts |-> 0,
                 edits |-> 0, lastEdit |-> <<>>]

\* The three returns of SettingsPage.
SettingsView(pg) ==
    IF pg.loading THEN "loading"
    ELSE IF pg.settings = <<>> THEN "empty"
    ELSE "form"

\* fetchSettings up to its await: setLoading(true), one more GET.
FetchSettingsCall(pg) ==
    [pg EXCEPT !.loading = TRUE,
               !.calls = @ + 1,
               !.fetches = @ \cup {pg.calls + 1}]

\* The message the catch block of handleSave stores.
SaveErrorMessage(fk) ==
    IF fk = "non2xx" THEN "Failed to save settings" ELSE "Failed to fetch"

\* A handler that replaces the whole section by the edited field's value.
HandleInputChangeWholeSection(settings, section, field, value) ==
    IF settings = <<>> THEN settings
    ELSE <<[settings[1] EXCEPT ![section] =
                [f \in DOMAIN settings[1][section] |-> value]]>>

\* handleInputChange: nothing when settings is null, else a copy of
\* settings with [section][field] replaced by value.
HandleInputChange(settings, section, field, value) ==
    IF settings = <<>> THEN settings
    ELSE <<[settings[1] EXCEPT ![section][field] = value]>>

\* The script before it is started.  ran is the list of the commands run so
\* far with the errorlevel each returned; exit is the code of exit /b.
ScriptInit == [which |-> "none", pc |-> "idle", errorlevel |-> 0,
               COMPOSE_CMD |-> <<>>, ran |-> <<>>, exit |-> <<>>]

\* What a command may leave in errorlevel: 0 on success, 1 on failure.
ExitCodes == {0, 1}

\* Running a command: errorlevel takes its exit code.
Run(sc, prog, args, code) ==
    [sc EXCEPT !.errorlevel = code,
               !.ran = Append(@, [prog |-> prog, args |-> args, code |-> code])]

\* if errorlevel 1: true when errorlevel is 1 or more.
ErrorLevel1(sc) == sc.errorlevel >= 1

\* exit /b code
ExitB(sc, code) == [sc EXCEPT !.pc = "exited", !.exit = <<code>>]

\* %COMPOSE_CMD% -f docker-compose.simple.yml <rest>
Simple(rest) == "-f docker-compose.simple.yml " \o rest

----------------------------------------------------------------------------
Init ==
    /\ kind \in Kinds
    /\ phase = "rendered"
    /\ stats = <<>>
    /\ loading = TRUE
    /\ error = <<>>
    /\ timers = {}
    /\ interval = <<>>
    /\ inflight = {}
    /\ issued = 0
    /\ ticks = 0
    /\ now = 0
    /\ okIds = {}
    /\ statsFrom = 0
    /\ lastPayload = <<>>
    /\ failures = 0
    /\ lateSetterCalls = 0
    /\ updates = <<>>
    /\ dbPage = DbInit
    /\ filesPage = FilesInit
    /\ dockerPage = DockerInit
    /\ settingsPage = SettingsInit
    /\ script = ScriptInit

\* Calling fetchDashboardStats / fetchSystemStatus: runs synchronously up to
\* the first await, which leaves one more promise pending.  There is no
\* guard on an earlier pending call.
StartFetch ==
    /\ issued' = issued + 1
    /\ inflight' = inflight \cup {issued + 1}

NewTimerId == Cardinality(timers) + 1

\* Mount without the immediate call: only the interval is armed.
MountTimerOnly ==
    /\ phase = "rendered"
    /\ phase' = "mounted"
    /\ timers' = timers \cup {[id |-> NewTimerId, period |-> Period(kind),
                               next |-> now + Period(kind)]}
    /\ interval' = <<NewTimerId>>
    /\ UNCHANGED <<pageVars, updates>>
    /\ UNCHANGED <<kind, stats, loading, error, inflight, issued, ticks, now,
                   okIds, statsFrom, lastPayload, failures, lateSetterCalls>>

\* useEffect(() => { fetch(); const interval = setInterval(fetch, P); ... }, [])
Mount ==
    /\ phase = "rendered"
    /\ phase' = "mounted"
    /\ StartFetch
    /\ timers' = timers \cup {[id |-> NewTimerId, period |-> Period(kind),
                               next |-> now + Period(kind)]}
    /\ interval' = <<NewTimerId>>
    /\ UNCHANGED <<pageVars, updates>>
    /\ UNCHANGED <<kind, stats, loading, error, ticks, now, okIds, statsFrom,
                   lastPayload, failures, lateSetterCalls>>

\* The interval fires: the callback is the fetch function itself.
Tick(t) ==
    /\ t \in timers
    /\ ticks < MaxTicks
    /\ issued < MaxFetches
    /\ now' = t.next
    /\ timers' = (timers \ {t}) \cup {[t EXCEPT !.next = t.next + t.period]}
    /\ ticks' = ticks + 1
    /\ StartFetch
    /\ UNCHANGED <<pageVars, updates>>
    /\ UNCHANGED <<kind, phase, stats, loading, error, interval, okIds,
                   statsFrom, lastPayload, failures, lateSetterCalls>>

\* onClick of the Retry button of the error view.
Retry ==
    /\ phase = "mounted"
    /\ RetryOffered
    /\ issued < MaxFetches
    /\ StartFetch
    /\ UNCHANGED <<pageVars, updates>>
    /\ UNCHANGED <<kind, phase, stats, loading, error, timers, interval,
                   ticks, now, okIds, statsFrom, lastPayload, failures,
                   lateSetterCalls>>

\* A success handler that only fills the snapshot the first time.
ResolveOkFirstOnly(f, data) ==
    /\ f \in inflight
    /\ inflight' = inflight \ {f}
    /\ okIds' = okIds \cup {f}
    /\ IF phase = "mounted" /\ stats = <<>>
       THEN /\ stats' = <<data>>
            /\ loading' = FALSE
            /\ statsFrom' = f
            /\ lastPayload' = <<data>>
            /\ updates' = Append(updates, f)
            /\ UNCHANGED lateSetterCalls
       ELSE /\ UNCHANGED <<stats, loading, statsFrom, lastPayload, updates,
                           lateSetterCalls>>
    /\ UNCHANGED pageVars
    /\ UNCHANGED <<kind, phase, error, timers, interval, issued, ticks, now,
                   failures>>

\* A success handler that merges into the previous snapshot instead of
\* replacing it: setStats(prev => ({...data, websites: prev.websites})).
ResolveOkMerge(f, data) ==
    /\ f \in inflight
    /\ inflight' = inflight \ {f}
    /\ okIds' = okIds \cup {f}
    /\ IF phase = "mounted"
       THEN /\ stats' = IF stats # <<>> /\ HasSnapshotShape(stats[1])
                            /\ HasSnapshotShape(data)
                         THEN <<[data EXCEPT !.sites = stats[1].sites]>>
                         ELSE <<data>>
            /\ loading' = FALSE
            /\ statsFrom' = f
            /\ lastPayload' = <<data>>
            /\ updates' = Append(updates, f)
            /\ UNCHANGED lateSetterCalls
       ELSE /\ lateSetterCalls' = lateSetterCalls + 2
            /\ UNCHANGED <<stats, loading, statsFrom, lastPayload, updates>>
    /\ UNCHANGED pageVars
    /\ UNCHANGED <<kind, phase, error, timers, interval, issued, ticks, now,
                   failures>>

\* The awaited promise fulfils with data: setStats(data); setLoading(false).
\* A setter called on an unmounted component is still called, but React
\* drops the update: the component never renders again.
ResolveOk(f, data) ==
    /\ f \in inflight
    /\ inflight' = inflight \ {f}
    /\ okIds' = okIds \cup {f}
    /\ IF phase = "mounted"
       THEN /\ stats' = <<data>>
            /\ loading' = FALSE
            /\ statsFrom' = f
            /\ lastPayload' = <<data>>
            /\ updates' = Append(updates, f)
            /\ UNCHANGED lateSetterCalls
       ELSE /\ lateSetterCalls' = lateSetterCalls + 2
            /\ UNCHANGED <<stats, loading, statsFrom, lastPayload, updates>>
    /\ UNCHANGED pageVars
    /\ UNCHANGED <<kind, phase, error, timers, interval, issued, ticks, now,
                   failures>>

\* A catch block that gives up polling: it also clears the interval.
ResolveFailCutoff(f, fk) ==
    /\ f \in inflight
    /\ inflight' = inflight \ {f}
    /\ failures' = failures + 1
    /\ timers' = {}
    /\ IF phase = "mounted"
       THEN /\ error' = <<ErrorMessage(kind, fk)>>
            /\ loading' = FALSE
            /\ UNCHANGED lateSetterCalls
       ELSE /\ lateSetterCalls' = lateSetterCalls + 2
            /\ UNCHANGED <<error, loading>>
    /\ UNCHANGED <<pageVars, updates>>
    /\ UNCHANGED <<kind, phase, stats, interval, issued, ticks, now,
                   okIds, statsFrom, lastPayload>>

\* The try block throws: setError(message); setLoading(false).
ResolveFail(f, fk) ==
    /\ f \in inflight
    /\ inflight' = inflight \ {f}
    /\ failures' = failures + 1
    /\ IF phase = "mounted"
       THEN /\ error' = <<ErrorMessage(kind, fk)>>
            /\ loading' = FALSE
            /\ UNCHANGED lateSetterCalls
       ELSE /\ lateSetterCalls' = lateSetterCalls + 2
            /\ UNCHANGED <<error, loading>>
    /\ UNCHANGED <<pageVars, updates>>
    /\ UNCHANGED <<kind, phase, stats, timers, interval, issued, ticks, now,
                   okIds, statsFrom, lastPayload>>

\* An effect without a cleanup: the interval outlives the component.
UnmountNoCleanup ==
    /\ phase = "mounted"
    /\ phase' = "unmounted"
    /\ UNCHANGED <<pageVars, updates>>
    /\ UNCHANGED <<kind, stats, loading, error, timers, interval, inflight,
                   issued, ticks, now, okIds, statsFrom, lastPayload,
                   failures, lateSetterCalls>>

\* The effect's cleanup: return () => clearInterval(interval)
Unmount ==
    /\ phase = "mounted"
    /\ phase' = "unmounted"
    /\ timers' = {t \in timers : <<t.id>> # interval}
    /\ UNCHANGED <<pageVars, updates>>
    /\ UNCHANGED <<kind, stats, loading, error, interval, inflight, issued,
                   ticks, now, okIds, statsFrom, lastPayload, failures,
                   lateSetterCalls>>

Next ==
    \/ Mount
    \/ \E t \in timers : Tick(t)
    \/ Retry
    \/ \E f \in inflight, data \in Bodies : ResolveOk(f, data)
    \/ \E f \in inflight, fk \in FailKinds : ResolveFail(f, fk)
    \/ Unmount

Spec == Init /\ [][Next]_vars

\* The paced scenario: every fetch succeeds before the interval fires again.
PacedTick(t) ==
    /\ inflight = {}
    /\ Tick(t)

NextPaced ==
    \/ Mount
    \/ \E t \in timers : PacedTick(t)
    \/ \E f \in inflight, data \in Bodies : ResolveOk(f, data)
    \/ Unmount

SpecPaced == Init /\ [][NextPaced]_vars

TypeOK ==
    /\ kind \in Kinds
    /\ phase \in {"rendered", "mounted", "unmounted"}
    /\ stats \in {<<>>} \cup {<<p>> : p \in Bodies}
    /\ loading \in BOOLEAN
    /\ Len(error) <= 1
    /\ inflight \subseteq 1..issued
    /\ issued \in 0..MaxFetches
    /\ ticks \in 0..MaxTicks
----------------------------------------------------------------------------
(* DatabasesPage *)

\* useEffect(() => { fetchDatabases() }, [])
DbMount ==
    /\ dbPage.phase = "rendered"
    /\ dbPage' = [FetchDatabasesCall(dbPage) EXCEPT !.phase = "mounted"]
    /\ UNCHANGED <<pollerVars, filesPage, dockerPage, settingsPage, script>>

\* onClick of the Retry button of the error view.
DbRetry ==
    /\ dbPage.phase = "mounted"
    /\ DbView(dbPage) = "error"
    /\ dbPage.calls < MaxDbFetches
    /\ dbPage' = FetchDatabasesCall(dbPage)
    /\ UNCHANGED <<pollerVars, filesPage, dockerPage, settingsPage, script>>

\* 200 with a parseable body: setDatabases(data.databases || []), then the
\* finally block: setLoading(false).
DbResolveOk(f, body) ==
    /\ f \in dbPage.pending
    /\ dbPage' = [dbPage EXCEPT
                    !.pending = @ \ {f},
                    !.databases = IF body = <<>> THEN <<>> ELSE body[1],
                    !.loading = FALSE,
                    !.oks = @ + 1]
    /\ UNCHANGED <<pollerVars, filesPage, dockerPage, settingsPage, script>>

\* The try block throws: setError(message), then setLoading(false).
DbResolveFail(f, fk) ==
    /\ f \in dbPage.pending
    /\ dbPage' = [dbPage EXCEPT
                    !.pending = @ \ {f},
                    !.error = <<ListErrorMessage("databases", fk)>>,
                    !.loading = FALSE]
    /\ UNCHANGED <<pollerVars, filesPage, dockerPage, settingsPage, script>>

----------------------------------------------------------------------------
(* FilesPage *)

\* useEffect(() => { fetchFiles() }, [currentPath]), first run.
FilesMount ==
    /\ filesPage.phase = "rendered"
    /\ filesPage' = [FetchFilesCall(filesPage) EXCEPT !.phase = "mounted"]
    /\ UNCHANGED <<pollerVars, dbPage, dockerPage, settingsPage, script>>

\* handleFileClick(file) on row i of the list.
FilesFileClick(i) ==
    /\ filesPage.phase = "mounted"
    /\ FilesView(filesPage) = "list"
    /\ i \in 1..Len(filesPage.files.items)
    /\ filesPage.calls < MaxFileFetches
    /\ filesPage' = IF filesPage.files.items[i].type = "directory"
                    THEN SetCurrentPath(filesPage, filesPage.files.items[i].path)
                    ELSE filesPage
    /\ UNCHANGED <<pollerVars, dbPage, dockerPage, settingsPage, script>>

\* handleBackClick; the button is disabled at '/'.
FilesBackClick ==
    /\ filesPage.phase = "mounted"
    /\ FilesView(filesPage) = "list"
    /\ filesPage.currentPath # Root
    /\ filesPage.calls < MaxFileFetches
    /\ filesPage' = SetCurrentPath(filesPage, BackPath(filesPage.currentPath))
    /\ UNCHANGED <<pollerVars, dbPage, dockerPage, settingsPage, script>>

\* The breadcrumb: Home (i = 0) or the i-th segment button.
FilesCrumbClick(i) ==
    /\ filesPage.phase = "mounted"
    /\ FilesView(filesPage) = "list"
    /\ filesPage.calls < MaxFileFetches
    /\ \/ i = 0
       \/ filesPage.currentPath # Root /\ i \in 1..Len(Segments(filesPage.currentPath))
    /\ filesPage' = SetCurrentPath(filesPage,
                        IF i = 0 THEN Root ELSE CrumbPath(filesPage.currentPath, i))
    /\ UNCHANGED <<pollerVars, dbPage, dockerPage, settingsPage, script>>

\* onChange of the checkbox of row i.
FilesFileSelect(i) ==
    /\ filesPage.phase = "mounted"
    /\ FilesView(filesPage) = "list"
    /\ i \in 1..Len(filesPage.files.items)
    /\ filesPage' = [filesPage EXCEPT !.selectedFiles =
                        HandleFileSelect(@, filesPage.files.items[i].id)]
    /\ UNCHANGED <<pollerVars, dbPage, dockerPage, settingsPage, script>>

\* onClick of the select-all button, onChange of the header checkbox.
FilesSelectAll ==
    /\ filesPage.phase = "mounted"
    /\ FilesView(filesPage) = "list"
    /\ filesPage' = [filesPage EXCEPT !.selectedFiles =
                        HandleSelectAll(@, filesPage.files.items)]
    /\ UNCHANGED <<pollerVars, dbPage, dockerPage, settingsPage, script>>

\* onClick of the Retry button of the error view.
FilesRetry ==
    /\ filesPage.phase = "mounted"
    /\ FilesView(filesPage) = "error"
    /\ filesPage.calls < MaxFileFetches
    /\ filesPage' = FetchFilesCall(filesPage)
    /\ UNCHANGED <<pollerVars, dbPage, dockerPage, settingsPage, script>>

\* 200 with a parseable body: setFiles(data.files || []), setLoading(false).
FilesResolveOk(f, withFiles) ==
    /\ f \in filesPage.pending
    /\ filesPage' = [filesPage EXCEPT
                       !.pending = @ \ {f},
                       !.files = [of |-> <<f.path>>,
                                  items |-> IF withFiles THEN Listing(f.path) ELSE <<>>],
                       !.loading = FALSE,
                       !.oks = @ + 1]
    /\ UNCHANGED <<pollerVars, dbPage, dockerPage, settingsPage, script>>

\* The try block throws: setError(message), then setLoading(false).
FilesResolveFail(f, fk) ==
    /\ f \in filesPage.pending
    /\ filesPage' = [filesPage EXCEPT
                       !.pending = @ \ {f},
                       !.error = <<ListErrorMessage("files", fk)>>,
                       !.loading = FALSE]
    /\ UNCHANGED <<pollerVars, dbPage, dockerPage, settingsPage, script>>

NextLists ==
    \/ DbMount
    \/ DbRetry
    \/ \E f \in dbPage.pending, body \in DbBodies : DbResolveOk(f, body)
    \/ \E f \in dbPage.pending, fk \in FailKinds : DbResolveFail(f, fk)
    \/ FilesMount
    \/ \E i \in 1..2 : FilesFileClick(i)
    \/ FilesBackClick
    \/ \E i \in 0..2 : FilesCrumbClick(i)
    \/ FilesRetry
    \/ \E i \in 1..2 : FilesFileSelect(i)
    \/ FilesSelectAll
    \/ \E f \in filesPage.pending, w \in BOOLEAN : FilesResolveOk(f, w)
    \/ \E f \in filesPage.pending, fk \in FailKinds : FilesResolveFail(f, fk)

SpecLists == Init /\ [][NextLists]_vars

----------------------------------------------------------------------------
(* DockerPage *)

\* useEffect(() => { fetchDockerData() }, [])
DockerMount ==
    /\ dockerPage.phase = "rendered"
    /\ dockerPage' = [FetchDockerDataCall(dockerPage) EXCEPT !.phase = "mounted"]
    /\ UNCHANGED <<pollerVars, dbPage, filesPage, settingsPage, script>>

\* onClick of the Retry button of the error view.
DockerRetry ==
    /\ dockerPage.phase = "mounted"
    /\ DockerView(dockerPage) = "error"
    /\ dockerPage.calls < MaxDockerFetches
    /\ dockerPage' = FetchDockerDataCall(dockerPage)
    /\ UNCHANGED <<pollerVars, dbPage, filesPage, settingsPage, script>>

\* The tab buttons of the list view.
DockerSetTab(tab) ==
    /\ dockerPage.phase = "mounted"
    /\ DockerView(dockerPage) = "list"
    /\ tab # dockerPage.activeTab
    /\ dockerPage' = [dockerPage EXCEPT !.activeTab = tab]
    /\ UNCHANGED <<pollerVars, dbPage, filesPage, settingsPage, script>>

\* containersResponse.ok: setContainers(data.containers || []), then the
\* images request.
DockerContainersOk(f, body) ==
    /\ f \in dockerPage.fetches
    /\ f.step = "containers"
    /\ dockerPage' = [dockerPage EXCEPT
                        !.containers = IF body = <<>> THEN <<>> ELSE body[1],
                        !.fetches = (@ \ {f}) \cup {[f EXCEPT !.step = "images"]}]
    /\ UNCHANGED <<pollerVars, dbPage, filesPage, settingsPage, script>>

\* The containers response is not ok: nothing is set, the images request
\* follows.
DockerContainersSkip(f) ==
    /\ f \in dockerPage.fetches
    /\ f.step = "containers"
    /\ dockerPage' = [dockerPage EXCEPT
                        !.fetches = (@ \ {f}) \cup {[f EXCEPT !.step = "images"]}]
    /\ UNCHANGED <<pollerVars, dbPage, filesPage, settingsPage, script>>

\* imagesResponse.ok: setImages(data.images || []), then setLoading(false).
DockerImagesOk(f, body) ==
    /\ f \in dockerPage.fetches
    /\ f.step = "images"
    /\ dockerPage' = [dockerPage EXCEPT
                        !.images = IF body = <<>> THEN <<>> ELSE body[1],
                        !.loading = FALSE,
                        !.fetches = @ \ {f}]
    /\ UNCHANGED <<pollerVars, dbPage, filesPage, settingsPage, script>>

\* The images response is not ok: only setLoading(false).
DockerImagesSkip(f) ==
    /\ f \in dockerPage.fetches
    /\ f.step = "images"
    /\ dockerPage' = [dockerPage EXCEPT !.loading = FALSE, !.fetches = @ \ {f}]
    /\ UNCHANGED <<pollerVars, dbPage, filesPage, settingsPage, script>>

\* Either await rejects or json() throws: setError(message), then
\* setLoading(false); the rest of the try block is skipped.
DockerFetchThrow(f, fk) ==
    /\ f \in dockerPage.fetches
    /\ fk \in {"network", "badjson"}
    /\ dockerPage' = [dockerPage EXCEPT
                        !.error = <<ListErrorMessage("Docker data", fk)>>,
                        !.loading = FALSE,
                        !.fetches = @ \ {f}]
    /\ UNCHANGED <<pollerVars, dbPage, filesPage, settingsPage, script>>

\* A row button: handleContainerAction(id, action) up to its await.
DockerActionClick(i, action) ==
    /\ dockerPage.phase = "mounted"
    /\ DockerView(dockerPage) = "list"
    /\ dockerPage.activeTab = "containers"
    /\ i \in 1..Len(dockerPage.containers)
    /\ action \in RowActions(dockerPage.containers[i])
    /\ dockerPage.posts < MaxDockerActions
    /\ dockerPage' = [dockerPage EXCEPT
                        !.posts = @ + 1,
                        !.actions = @ \cup {[id |-> dockerPage.posts + 1,
                                             container |-> dockerPage.containers[i].id,
                                             action |-> action]}]
    /\ UNCHANGED <<pollerVars, dbPage, filesPage, settingsPage, script>>

\* A handler whose catch block reports the failure in the view.
DockerActionRespReportsError(a, outcome) ==
    /\ a \in dockerPage.actions
    /\ outcome = "ok" => dockerPage.calls < MaxDockerFetches
    /\ LET pg == [dockerPage EXCEPT !.actions = @ \ {a},
                                    !.done = @ + 1,
                                    !.lastAction = outcome]
       IN dockerPage' = IF outcome = "ok" THEN FetchDockerDataCall(pg)
                        ELSE [pg EXCEPT !.error = <<"Failed to " \o a.action \o " container">>]
    /\ UNCHANGED <<pollerVars, dbPage, filesPage, settingsPage, script>>

\* The action request settles: response.ok calls fetchDockerData(); a
\* response that is not ok does nothing; a rejection is only logged.
DockerActionResp(a, outcome) ==
    /\ a \in dockerPage.actions
    /\ outcome = "ok" => dockerPage.calls < MaxDockerFetches
    /\ LET pg == [dockerPage EXCEPT !.actions = @ \ {a},
                                    !.done = @ + 1,
                                    !.lastAction = outcome]
       IN dockerPage' = IF outcome = "ok" THEN FetchDockerDataCall(pg) ELSE pg
    /\ UNCHANGED <<pollerVars, dbPage, filesPage, settingsPage, script>>

NextDocker ==
    \/ DockerMount
    \/ DockerRetry
    \/ \E tab \in {"containers", "images"} : DockerSetTab(tab)
    \/ \E f \in dockerPage.fetches, body \in ContainerBodies : DockerContainersOk(f, body)
    \/ \E f \in dockerPage.fetches : DockerContainersSkip(f)
    \/ \E f \in dockerPage.fetches, body \in ImageBodies : DockerImagesOk(f, body)
    \/ \E f \in dockerPage.fetches : DockerImagesSkip(f)
    \/ \E f \in dockerPage.fetches, fk \in FailKinds : DockerFetchThrow(f, fk)
    \/ \E i \in 1..1, action \in {"start", "stop", "restart"} : DockerActionClick(i, action)
    \/ \E a \in dockerPage.actions, outcome \in {"ok", "non2xx", "network"} :
            DockerActionResp(a, outcome)

SpecDocker == Init /\ [][NextDocker]_vars

----------------------------------------------------------------------------
(* SettingsPage *)

\* useEffect(() => { fetchSettings() }, [])
SettingsMount ==
    /\ settingsPage.phase = "rendered"
    /\ settingsPage' = [FetchSettingsCall(settingsPage) EXCEPT !.phase = "mounted"]
    /\ UNCHANGED <<pollerVars, dbPage, filesPage, dockerPage, script>>

\* onClick of the Refresh button: rendered with the form, disabled={saving}.
SettingsRefreshClick ==
    /\ settingsPage.phase = "mounted"
    /\ SettingsView(settingsPage) = "form"
    /\ ~settingsPage.saving
    /\ settingsPage.calls < MaxSettingsFetches
    /\ settingsPage' = FetchSettingsCall(settingsPage)
    /\ UNCHANGED <<pollerVars, dbPage, filesPage, dockerPage, script>>

\* 200 with a parseable body: setSettings(data), then setLoading(false).
SettingsFetchOk(f, data) ==
    /\ f \in settingsPage.fetches
    /\ settingsPage' = [settingsPage EXCEPT
                          !.fetches = @ \ {f},
                          !.settings = <<data>>,
                          !.loading = FALSE]
    /\ UNCHANGED <<pollerVars, dbPage, filesPage, dockerPage, script>>

\* The try block of fetchSettings throws: setError(message), then
\* setLoading(false).
SettingsFetchFail(f, fk) ==
    /\ f \in settingsPage.fetches
    /\ settingsPage' = [settingsPage EXCEPT
                          !.fetches = @ \ {f},
                          !.error = <<ListErrorMessage("settings", fk)>>,
                          !.loading = FALSE]
    /\ UNCHANGED <<pollerVars, dbPage, filesPage, dockerPage, script>>

\* A Save button that stays enabled while a save is pending.
SettingsSaveClickNotDisabled ==
    /\ settingsPage.phase = "mounted"
    /\ SettingsView(settingsPage) = "form"
    /\ settingsPage.puts < MaxSaves
    /\ settingsPage' = [settingsPage EXCEPT
                          !.saving = TRUE,
                          !.error = <<>>,
                          !.success = <<>>,
                          !.puts = @ + 1,
                          !.saves = @ \cup {[id |-> settingsPage.puts + 1,
                                             body |-> settingsPage.settings[1]]}]
    /\ UNCHANGED <<pollerVars, dbPage, filesPage, dockerPage, script>>

\* onClick of the Save button (rendered with the form, disabled={saving}):
\* handleSave up to its await: setSaving(true), setError(null),
\* setSuccess(null), then the PUT of the current settings.
SettingsSaveClick ==
    /\ settingsPage.phase = "mounted"
    /\ SettingsView(settingsPage) = "form"
    /\ ~settingsPage.saving
    /\ settingsPage.puts < MaxSaves
    /\ settingsPage' = [settingsPage EXCEPT
                          !.saving = TRUE,
                          !.error = <<>>,
                          !.success = <<>>,
                          !.puts = @ + 1,
                          !.saves = @ \cup {[id |-> settingsPage.puts + 1,
                                             body |-> settingsPage.settings[1]]}]
    /\ UNCHANGED <<pollerVars, dbPage, filesPage, dockerPage, script>>

\* The PUT answers 2xx: setSuccess(message), then setSaving(false).
SettingsSaveOk(sv) ==
    /\ sv \in settingsPage.saves
    /\ settingsPage' = [settingsPage EXCEPT
                          !.saves = @ \ {sv},
                          !.success = <<"Settings saved successfully!">>,
                          !.saving = FALSE]
    /\ UNCHANGED <<pollerVars, dbPage, filesPage, dockerPage, script>>

\* The PUT answers another status or is rejected: setError(message), then
\* setSaving(false).
SettingsSaveFail(sv, fk) ==
    /\ sv \in settingsPage.saves
    /\ fk \in {"non2xx", "network"}
    /\ settingsPage' = [settingsPage EXCEPT
                          !.saves = @ \ {sv},
                          !.error = <<SaveErrorMessage(fk)>>,
                          !.saving = FALSE]
    /\ UNCHANGED <<pollerVars, dbPage, filesPage, dockerPage, script>>

\* onChange of an input of the form.
SettingsInputChange(section, field, value) ==
    /\ settingsPage.phase = "mounted"
    /\ SettingsView(settingsPage) = "form"
    /\ settingsPage.edits < MaxEdits
    /\ settingsPage' = [settingsPage EXCEPT
                          !.settings = HandleInputChange(@, section, field, value),
                          !.edits = @ + 1,
                          !.lastEdit = <<[section |-> section, field |-> field,
                                          value |-> value]>>]
    /\ UNCHANGED <<pollerVars, dbPage, filesPage, dockerPage, script>>

NextSettings ==
    \/ SettingsMount
    \/ SettingsRefreshClick
    \/ \E f \in settingsPage.fetches, data \in SettingsDocs : SettingsFetchOk(f, data)
    \/ \E f \in settingsPage.fetches, fk \in FailKinds : SettingsFetchFail(f, fk)
    \/ SettingsSaveClick
    \/ \E sv \in settingsPage.saves : SettingsSaveOk(sv)
    \/ \E sv \in settingsPage.saves, fk \in {"non2xx", "network"} : SettingsSaveFail(sv, fk)
    \/ \E inp \in SettingsInputs, value \in InputValues :
            SettingsInputChange(inp[1], inp[2], value)

SpecSettings == Init /\ [][NextSettings]_vars

----------------------------------------------------------------------------
(* The Docker start scripts: the simplified start and the fix script run *)
(* the same commands in the same order.                                   *)

\* The user launches one of the two scripts.
ScriptStart(which) ==
    /\ script.pc = "idle"
    /\ script' = [script EXCEPT !.which = which, !.pc = "docker_info"]
    /\ UNCHANGED <<pollerVars, dbPage, filesPage, dockerPage, settingsPage>>

\* docker info; if errorlevel 1 ( ... exit /b 1 )
ScriptDockerInfo(code) ==
    /\ script.pc = "docker_info"
    /\ LET sc == Run(script, "docker", "info", code)
       IN script' = IF ErrorLevel1(sc) THEN ExitB(sc, 1)
                    ELSE [sc EXCEPT !.pc = "probe_hyphen"]
    /\ UNCHANGED <<pollerVars, dbPage, filesPage, dockerPage, settingsPage>>

\* docker-compose --version; on success set COMPOSE_CMD=docker-compose,
\* else go on to the second probe.
ScriptProbeHyphen(code) ==
    /\ script.pc = "probe_hyphen"
    /\ LET sc == Run(script, "docker-compose", "--version", code)
       IN script' = IF ErrorLevel1(sc) THEN [sc EXCEPT !.pc = "probe_plugin"]
                    ELSE [sc EXCEPT !.COMPOSE_CMD = <<"docker-compose">>,
                                    !.pc = "down"]
    /\ UNCHANGED <<pollerVars, dbPage, filesPage, dockerPage, settingsPage>>

\* docker compose --version; on failure exit /b 1, else
\* set COMPOSE_CMD=docker compose.
ScriptProbePlugin(code) ==
    /\ script.pc = "probe_plugin"
    /\ LET sc == Run(script, "docker compose", "--version", code)
       IN script' = IF ErrorLevel1(sc) THEN ExitB(sc, 1)
                    ELSE [sc EXCEPT !.COMPOSE_CMD = <<"docker compose">>,
                                    !.pc = "down"]
    /\ UNCHANGED <<pollerVars, dbPage, filesPage, dockerPage, settingsPage>>

\* %COMPOSE_CMD% down -v
ScriptDown(code) ==
    /\ script.pc = "down"
    /\ script' = [Run(script, script.COMPOSE_CMD[1], "down -v", code)
                    EXCEPT !.pc = "prune"]
    /\ UNCHANGED <<pollerVars, dbPage, filesPage, dockerPage, settingsPage>>

\* docker system prune -f
ScriptPrune(code) ==
    /\ script.pc = "prune"
    /\ script' = [Run(script, "docker", "system prune -f", code)
                    EXCEPT !.pc = "ports"]
    /\ UNCHANGED <<pollerVars, dbPage, filesPage, dockerPage, settingsPage>>

\* netstat -ano | findstr :8000; a hit only prints a warning and pauses.
ScriptPortCheck(code) ==
    /\ script.pc = "ports"
    /\ script' = [Run(script, "netstat", "-ano | findstr :8000", code)
                    EXCEPT !.pc = "up"]
    /\ UNCHANGED <<pollerVars, dbPage, filesPage, dockerPage, settingsPage>>

\* A script that starts the services one by one whatever the combined
\* start returned.
ScriptUpAlwaysFallback(code) ==
    /\ script.pc = "up"
    /\ script' = [Run(script, script.COMPOSE_CMD[1], Simple("up -d --build"), code)
                    EXCEPT !.pc = "up_postgres"]
    /\ UNCHANGED <<pollerVars, dbPage, filesPage, dockerPage, settingsPage>>

\* %COMPOSE_CMD% -f docker-compose.simple.yml up -d --build, then
\* if errorlevel 1 ( the one-by-one start ).
ScriptUp(code) ==
    /\ script.pc = "up"
    /\ LET sc == Run(script, script.COMPOSE_CMD[1], Simple("up -d --build"), code)
       IN script' = [sc EXCEPT !.pc = IF ErrorLevel1(sc) THEN "up_postgres"
                                      ELSE "status"]
    /\ UNCHANGED <<pollerVars, dbPage, filesPage, dockerPage, settingsPage>>

\* ... up -d postgres, then a 15 s wait.
ScriptUpPostgres(code) ==
    /\ script.pc = "up_postgres"
    /\ script' = [Run(script, script.COMPOSE_CMD[1], Simple("up -d postgres"), code)
                    EXCEPT !.pc = "up_redis"]
    /\ UNCHANGED <<pollerVars, dbPage, filesPage, dockerPage, settingsPage>>

\* ... up -d redis, then a 10 s wait.
ScriptUpRedis(code) ==
    /\ script.pc = "up_redis"
    /\ script' = [Run(script, script.COMPOSE_CMD[1], Simple("up -d redis"), code)
                    EXCEPT !.pc = "up_panel"]
    /\ UNCHANGED <<pollerVars, dbPage, filesPage, dockerPage, settingsPage>>

\* ... up -d hosting_panel: the end of the one-by-one start.
ScriptUpPanel(code) ==
    /\ script.pc = "up_panel"
    /\ script' = [Run(script, script.COMPOSE_CMD[1], Simple("up -d hosting_panel"), code)
                    EXCEPT !.pc = "status"]
    /\ UNCHANGED <<pollerVars, dbPage, filesPage, dockerPage, settingsPage>>

\* After the wait: ... ps
ScriptStatus(code) ==
    /\ script.pc = "status"
    /\ script' = [Run(script, script.COMPOSE_CMD[1], Simple("ps"), code)
                    EXCEPT !.pc = "logs"]
    /\ UNCHANGED <<pollerVars, dbPage, filesPage, dockerPage, settingsPage>>

\* ... logs --tail=15 (start script) or --tail=10 (fix script), then the
\* closing messages.
ScriptLogs(code) ==
    /\ script.pc = "logs"
    /\ script' = [Run(script, script.COMPOSE_CMD[1],
                       Simple(IF script.which = "start" THEN "logs --tail=15"
                              ELSE "logs --tail=10"), code)
                    EXCEPT !.pc = "done"]
    /\ UNCHANGED <<pollerVars, dbPage, filesPage, dockerPage, settingsPage>>

NextScripts ==
    \/ \E which \in {"start", "fix"} : ScriptStart(which)
    \/ \E code \in ExitCodes : ScriptDockerInfo(code)
    \/ \E code \in ExitCodes : ScriptProbeHyphen(code)
    \/ \E code \in ExitCodes : ScriptProbePlugin(code)
    \/ \E code \in ExitCodes : ScriptDown(code)
    \/ \E code \in ExitCodes : ScriptPrune(code)
    \/ \E code \in ExitCodes : ScriptPortCheck(code)
    \/ \E code \in ExitCodes : ScriptUp(code)
    \/ \E code \in ExitCodes : ScriptUpPostgres(code)
    \/ \E code \in ExitCodes : ScriptUpRedis(code)
    \/ \E code \in ExitCodes : ScriptUpPanel(code)
    \/ \E code \in ExitCodes : ScriptStatus(code)
    \/ \E code \in ExitCodes : ScriptLogs(code)

SpecScripts == Init /\ [][NextScripts]_vars

----------------------------------------------------------------------------
(* Helpers of the properties *)

RECURSIVE MaxOf(_)
MaxOf(S) ==
    IF S = {} THEN 0
    ELSE LET x == CHOOSE y \in S : TRUE
             m == MaxOf(S \ {x})
         IN IF x > m THEN x ELSE m

\* The directory that contains the one p names: p without its last
\* segment, '/' for a top-level directory and for '/' itself.
ParentDir(p) ==
    IF Len(Segments(p)) <= 1 THEN Root
    ELSE <<"">> \o SubSeq(Segments(p), 1, Len(Segments(p)) - 1)

\* The commands of a script run that use the compose command (anything but
\* the --version probes), that clean up, and that start one service.
IsComposeUse(c) ==
    c.prog \in {"docker-compose", "docker compose"} /\ c.args # "--version"

IsCleanup(c) == c.prog = "docker" /\ c.args = "system prune -f"

OneByOne == <<Simple("up -d postgres"), Simple("up -d redis"),
              Simple("up -d hosting_panel")>>

IsOneByOne(c) == \E n \in 1..3 : c.args = OneByOne[n]

\* Whether the run has executed prog args with an exit code in codes.
Ran(prog, args, codes) ==
    \E k \in 1..Len(script.ran) :
        /\ script.ran[k].prog = prog
        /\ script.ran[k].args = args
        /\ script.ran[k].code \in codes

\* The period the documentation gives each component.
DocumentedPeriod == IF kind = "dashboard" THEN 30000 ELSE 5000

----------------------------------------------------------------------------
\* C1: for one poller instance at most one fetch is in flight in every
\* reachable state; mount, a tick or Retry never starts a fetch while an
\* earlier one is pending.
C1_AtMostOneInFlight == Cardinality(inflight) <= 1

\* C2: after the view has unmounted, the resolution of a fetch that was in
\* flight at unmount makes no state-setter call.
C2_NoSetterAfterUnmount == lateSetterCalls = 0

\* C3: a fetch that resolves successfully on the mounted view replaces the
\* snapshot and clears the error, so the view shows the new snapshot.
C3_SuccessClearsError ==
    [][(phase = "mounted" /\ okIds' # okIds)
         => (error' = <<>> /\ View' = "data")]_vars

\* C4: when a fetch fails after an earlier one succeeded, the view keeps
\* displaying the snapshot of the last successful fetch, with the error flag
\* set and the retry control offered.
C4_FailureKeepsSnapshotDisplayed ==
    [][(phase = "mounted" /\ lastPayload # <<>> /\ failures' > failures)
         => (Displayed' = lastPayload /\ Truthy(error') /\ RetryOffered')]_vars

\* C5: completions are applied in issuance order, so once every fetch has
\* settled the snapshot is the payload of the last issued successful fetch.
C5_SnapshotOfLastIssued ==
    (phase = "mounted" /\ inflight = {} /\ okIds # {})
        => statsFrom = MaxOf(okIds)

\* C6: after polls that all succeeded, the snapshot in view state, and the
\* one displayed, is exactly the payload of the most recently resolved
\* fetch, as a whole.
C6_SnapshotIsLastResolved ==
    (phase = "mounted" /\ failures = 0 /\ okIds # {})
        => (stats = lastPayload /\ Displayed = lastPayload)

C6_Witness ==
    /\ phase = "mounted"
    /\ failures = 0
    /\ Cardinality(okIds) >= 2
    /\ stats = <<SnapA>>
    /\ updates = <<1, 2>>

\* C7: between mount and the completion of the first successful fetch the
\* view shows the loading indicator, whatever earlier fetches did.
C7_LoadingUntilFirstSuccess ==
    (phase = "mounted" /\ okIds = {}) => View = "loading"

\* C8: after unmount the schedule is cancelled: no timer stays armed and no
\* fetch is started any more.
C8_NoFetchAfterUnmount ==
    /\ [](phase = "unmounted" => timers = {})
    /\ [][phase = "unmounted" => issued' = issued]_vars

C8_Witness ==
    /\ phase = "unmounted"
    /\ ticks >= 1
    /\ inflight # {}
    /\ issued < MaxFetches

\* C9: mount issues exactly one fetch at once and arms one timer of the
\* documented period; while mounted there is exactly one timer and its
\* period never changes.
C9_MountFetchesOnceAndArmsOneTimer ==
    /\ [](phase = "mounted" =>
            /\ Cardinality(timers) = 1
            /\ \A t \in timers : t.period = DocumentedPeriod)
    /\ [][(phase = "rendered" /\ phase' = "mounted")
            => (issued' = 1 /\ inflight' = {1} /\ now' = now)]_vars
    /\ [][\A t \in timers : \A u \in timers' :
            t.id = u.id => t.period = u.period]_vars

C9_Witness ==
    /\ phase = "mounted"
    /\ kind = "system"
    /\ ticks >= 2
    /\ now = 10000

\* C10: a failed fetch is not fatal and does not alter the schedule: after
\* consecutive failures the view is mounted, the timer is armed with the
\* same period, and every tick issues a fetch.
C10_FailureKeepsSchedule ==
    /\ [][failures' > failures => (timers' = timers /\ phase' = phase)]_vars
    /\ [](phase = "mounted" /\ failures > 0 =>
            \E t \in timers : t.period = DocumentedPeriod)
    /\ [][ticks' > ticks => (issued' = issued + 1 /\ inflight' # inflight)]_vars

C10_Witness ==
    /\ phase = "mounted"
    /\ failures >= 2
    /\ okIds = {}
    /\ ticks >= 2
    /\ inflight # {}

----------------------------------------------------------------------------
(* Helpers of the properties of the rendered snapshot *)

Gauges(b) == <<b.cpu, b.memory, b.disk>>

NewestFirst(activity) ==
    \A i \in 1..Len(activity) : \A j \in 1..Len(activity) :
        i < j => activity[i].ts >= activity[j].ts

DistinctIds(activity) ==
    \A i \in 1..Len(activity) : \A j \in 1..Len(activity) :
        i # j => activity[i].id # activity[j].id

SatisfiesDataModel(b) ==
    /\ HasSnapshotShape(b)
    /\ \A i \in 1..3 : Gauges(b)[i] >= 0 /\ Gauges(b)[i] <= 10000
    /\ NewestFirst(b.activity)
    /\ DistinctIds(b.activity)

\* Retry, observed: one more fetch pending, the clock and the tick count
\* where they were.
RetryNow ==
    /\ Retry
    /\ issued' = issued + 1
    /\ (issued + 1) \in inflight'
    /\ now' = now
    /\ ticks' = ticks

----------------------------------------------------------------------------
\* C11: whenever the error flag is set on the mounted view, the view offers
\* Retry, and Retry can be invoked there and issues a fetch at once, with no
\* tick in between.
C11_ErrorOffersImmediateRetry ==
    (phase = "mounted" /\ error # <<>>)
        => (RetryOffered /\ (issued < MaxFetches => ENABLED RetryNow))

C11_Witness ==
    /\ phase = "mounted"
    /\ error # <<>>
    /\ stats # <<>>
    /\ issued > ticks + 1
    /\ issued \in inflight

\* C12: a poll that ends in any of the three failure kinds (transport
\* failure, non-2xx, body of another shape than the snapshot) leaves the
\* mounted poller in the fetch-failed state: error set, loading false,
\* snapshot untouched.
C12_FailuresCollapse ==
    [][(/\ phase = "mounted"
        /\ \/ failures' > failures
           \/ (okIds' # okIds /\ ~HasSnapshotShape(lastPayload'[1])))
         => (Truthy(error') /\ loading' = FALSE /\ stats' = stats)]_vars

\* C14: every request to /api/v1 carries the bearer token: each pending poll
\* request has an Authorization header.
C14_EveryRequestAuthenticated ==
    \A f \in inflight : "Authorization" \in RequestHeaders(kind)

\* C15: every snapshot held in the Dashboard's state satisfies the data
\* model: gauges within [0,100], activity newest-first, activity ids
\* pairwise distinct.
C15_StateSatisfiesDataModel ==
    (kind = "dashboard" /\ stats # <<>>) => SatisfiesDataModel(stats[1])

\* C16: for every displayed snapshot each gauge is written with one decimal
\* and a percent sign, and its bar width is that value and lies in [0,100].
C16_GaugesRendered ==
    (kind = "dashboard" /\ phase = "mounted" /\ View = "data"
        /\ HasSnapshotShape(stats[1]))
        => \A i \in 1..3 :
             LET v == Gauges(stats[1])[i]
                 txt == GaugeText(v)
                 w == GaugeWidth(v)
             IN /\ txt.suffix = "%"
                /\ txt.frac \in 0..9
                /\ 100 * txt.int + 10 * txt.frac - v \in -5..5
                /\ w.value = v
                /\ w.unit = "%"
                /\ w.value >= 0
                /\ w.value <= 10000

\* C17: a displayed snapshot with no activity entry renders the empty-state
\* message and no row; one with entries renders one row per entry, in
\* snapshot order, and no empty-state message.
C17_ActivityPanel ==
    (kind = "dashboard" /\ phase = "mounted" /\ View = "data"
        /\ HasSnapshotShape(stats[1]))
        => LET a == stats[1].activity
               panel == ActivityPanel(a)
           IN /\ Len(a) = 0 => (panel.emptyMessage /\ panel.rows = <<>>)
              /\ Len(a) > 0 =>
                    /\ ~panel.emptyMessage
                    /\ Len(panel.rows) = Len(a)
                    /\ \A i \in 1..Len(a) : panel.rows[i].key = a[i].id

C17_Witness ==
    /\ kind = "dashboard"
    /\ phase = "mounted"
    /\ View = "data"
    /\ stats = <<SnapA>>
    /\ Len(updates) >= 2

\* C13: in the paced scenario, with the first k fetches issued at mount and
\* at the next k-1 ticks and all resolved, the snapshot state was updated
\* exactly k times, the i-th update by the i-th fetch with its payload.
C13_PacedUpdates ==
    /\ [](phase = "mounted" =>
            /\ issued = ticks + 1
            /\ now = ticks * DocumentedPeriod
            /\ updates = [i \in 1..(issued - Cardinality(inflight)) |-> i])
    /\ [][(phase = "mounted" /\ okIds' # okIds)
            => (/\ updates' = Append(updates, issued)
                /\ stats' = lastPayload'
                /\ statsFrom' = issued)]_vars

C13_Witness ==
    /\ kind = "dashboard"
    /\ phase = "mounted"
    /\ inflight = {}
    /\ updates = <<1, 2, 3>>
    /\ now = 60000

\* C19: on a one-shot list view, when a Retry after a failed load resolves
\* successfully, the error is null and the list is displayed.
C19_RetryReturnsToList ==
    [][/\ (dbPage.error # <<>> /\ dbPage'.oks > dbPage.oks)
            => (dbPage'.error = <<>> /\ DbView(dbPage') = "list")
       /\ (filesPage.error # <<>> /\ filesPage'.oks > filesPage.oks)
            => (filesPage'.error = <<>> /\ FilesView(filesPage') = "list")]_vars

\* C20: on the Files view every list written to state was requested for the
\* current path, so the list displayed once the fetches have settled is the
\* listing of the current path; an answer for an earlier path never
\* replaces it.
C20_FilesListIsCurrentPath ==
    /\ []((/\ filesPage.phase = "mounted"
           /\ FilesView(filesPage) = "list"
           /\ filesPage.pending = {})
            => (/\ filesPage.files.of = <<filesPage.currentPath>>
                /\ filesPage.files.items \in
                      {<<>>, Listing(filesPage.currentPath)}))
    /\ [][filesPage'.files # filesPage.files
            => filesPage'.files.of = <<filesPage'.currentPath>>]_vars

C20_Witness ==
    /\ filesPage.phase = "mounted"
    /\ FilesView(filesPage) = "list"
    /\ filesPage.currentPath = Root
    /\ filesPage.calls >= 3
    /\ filesPage.files.items = Listing(Root)

\* C21: on the Files view the selected ids are ids of displayed files, so
\* the 'Deselect All' label and a checked header checkbox appear only when
\* every displayed file is selected.
C21_SelectionWithinDisplayed ==
    (filesPage.phase = "mounted" /\ FilesView(filesPage) = "list")
        => /\ \A k \in 1..Len(filesPage.selectedFiles) :
                \E i \in 1..Len(filesPage.files.items) :
                    filesPage.files.items[i].id = filesPage.selectedFiles[k]
           /\ (SelectAllLabel(filesPage) = "Deselect All" \/ HeaderChecked(filesPage))
                => \A i \in 1..Len(filesPage.files.items) : RowChecked(filesPage, i)

\* C25: on the Files view handleBackClick takes the current path to its
\* parent directory and never above the root: '/' and '/a' give '/', '/a/b'
\* gives '/a'.
C25_BackGoesToParent ==
    /\ BackPath(Root) = Root
    /\ filesPage.phase = "mounted"
        => BackPath(filesPage.currentPath) = ParentDir(filesPage.currentPath)

\* C22: on a one-shot list view loading is true exactly while at least one
\* list fetch of the view is in flight; stated here for the Docker view,
\* whose fetchDockerData is also called by handleContainerAction.
C22_LoadingWhileFetching ==
    dockerPage.phase = "mounted"
        => (dockerPage.loading <=> dockerPage.fetches # {})

\* C23: on the Settings view at most one save request is in flight, saving
\* is true exactly while a save is in flight, and while it is true neither
\* Save nor Refresh can be triggered.
C23_OneSaveAtATime ==
    settingsPage.phase = "mounted"
        => /\ Cardinality(settingsPage.saves) <= 1
           /\ settingsPage.saving <=> settingsPage.saves # {}
           /\ settingsPage.saving
                => (~ENABLED SettingsSaveClick /\ ~ENABLED SettingsRefreshClick)

C23_Witness ==
    /\ settingsPage.phase = "mounted"
    /\ settingsPage.puts = 2
    /\ settingsPage.saving
    /\ settingsPage.calls = 2
    /\ Cardinality(settingsPage.saves) = 1
    /\ settingsPage.fetches = {}

\* C24: on the Settings view the success message and the error message are
\* never both set.
C24_SuccessOrErrorNotBoth ==
    settingsPage.phase = "mounted"
        => ~(settingsPage.success # <<>> /\ settingsPage.error # <<>>)

\* C27: handleInputChange(section, field, value) sets that field of that
\* section to value and leaves every other field, every other section and
\* the loading, saving, error and success flags as they were; with settings
\* null it changes nothing.
C27_InputChangeFrame ==
    /\ [](\A inp \in SettingsInputs, value \in InputValues :
            HandleInputChange(<<>>, inp[1], inp[2], value) = <<>>)
    /\ [][settingsPage'.edits # settingsPage.edits
            => LET e == settingsPage'.lastEdit[1]
                   old == settingsPage.settings[1]
                   new == settingsPage'.settings[1]
               IN /\ new[e.section][e.field] = e.value
                  /\ DOMAIN new = DOMAIN old
                  /\ \A sec \in DOMAIN old :
                        /\ DOMAIN new[sec] = DOMAIN old[sec]
                        /\ \A fld \in DOMAIN old[sec] :
                              (sec # e.section \/ fld # e.field)
                                  => new[sec][fld] = old[sec][fld]
                  /\ settingsPage'.loading = settingsPage.loading
                  /\ settingsPage'.saving = settingsPage.saving
                  /\ settingsPage'.error = settingsPage.error
                  /\ settingsPage'.success = settingsPage.success]_vars

C27_Witness ==
    /\ settingsPage.edits = 2
    /\ settingsPage.saving
    /\ settingsPage.settings # <<>>
    /\ settingsPage.settings[1].general.site_name = "Panel"
    /\ settingsPage.settings[1].email.from_name = "x"
    /\ settingsPage.lastEdit = <<[section |-> "email", field |-> "from_name", value |-> "x"]>>

C18_ActionRefetchesOnlyOnSuccess ==
    [][dockerPage'.done > dockerPage.done
        => IF dockerPage'.lastAction = "ok"
           THEN /\ dockerPage'.calls = dockerPage.calls + 1
                /\ dockerPage'.loading = TRUE
                /\ [id |-> dockerPage.calls + 1, step |-> "containers"]
                      \in dockerPage'.fetches
           ELSE /\ dockerPage'.containers = dockerPage.containers
                /\ dockerPage'.images = dockerPage.images
                /\ dockerPage'.loading = dockerPage.loading
                /\ dockerPage'.error = dockerPage.error
                /\ dockerPage'.calls = dockerPage.calls
                /\ dockerPage'.fetches = dockerPage.fetches]_vars

C18_Witness ==
    /\ dockerPage.done >= 2
    /\ dockerPage.lastAction = "network"
    /\ dockerPage.calls >= 2
    /\ dockerPage.containers # <<>>
====
